---- MODULE Spec2Model ----
(***************************************************************************)
(* btlr run: one command executed once per directory by a bounded pool of  *)
(* workers (startInDirs / runOperation.Execute), driven and reported by    *)
(* runRun.  The model follows the newest run.go of the repository          *)
(* (src/unnamed/part_005) and the exit codes of src/cmd/common.go.         *)
(*                                                                         *)
(* os/exec is modelled by its documented behaviour: Cmd.Run returns the    *)
(* lookup error of the binary first, then ctx.Err() when the context is    *)
(* already done at Start, kills the process (os.Process.Kill) when the     *)
(* context becomes done while it runs, and reports a process that exited   *)
(* non-zero or died from a signal as an *exec.ExitError.                   *)
(***************************************************************************)
EXTENDS Integers, Sequences, FiniteSets, TLC

\* ---------------------------------------------------------------- bounds
MaxDirs == 2
MaxThreads == 2
MaxDur == 1
MaxEntries == 2
MaxSegments == 3

\* ------------------------------------------------------------- constants
FailedCmdExitCode == 2
MisuseExitCode == 50
InterruptExitCode == 51

Error == "ERROR"
Skipped == "SKIPPED"
Failure == "FAILURE"
Success == "SUCCESS"
\* the zero value of StatusType, before Execute assigns one
Unset == ""

StatusType == {Error, Skipped, Failure, Success}

\* error values; the empty sequence is nil
NilErr == << >>
ContextCanceled == <<"context canceled">>
DeadlineExceeded == <<"context deadline exceeded">>
LookPathErr == <<"exec: executable file not found in $PATH">>
ExitStatus1 == <<"exit status 1">>
SignalKilled == <<"signal: killed">>
Interrupted == <<"interupted before complete (sigint or sigterm)">>
FailedToRun == <<"failed to run cmd">>

\* what becomes of one pattern: rGlob fails on it ("bad"), it matches nothing
\* ("none"), it matches a path in a directory no earlier pattern matched
\* ("hit"), or it matches a path whose os.Stat fails ("gone")
PatternOutcomes == {"bad", "none", "hit", "gone"}

\* what the command does in a directory once it is run there
Behaviours == {"nolaunch", "exit0", "exit1", "hang"}

VARIABLES
    pc,          \* where runRun is
    gitDiff,     \* cfg.gitDiffArgs != ""
    execCmd,     \* what shlex.Split makes of the words after the patterns:
                 \* "bad" an error, "empty" no word at all, "ok" a command
    patterns,    \* per pattern, what rGlob and os.Stat will make of it; << >>
                 \* once the directories are collected (not read after line 121)
    maxThreads,  \* cfg.maxConcurrency
    maxDur,      \* cfg.maxCmdDur, in clock ticks
    dirs,        \* runRun's dirs
    phase,       \* the command the current operations run: "filter" or "primary"
    ops,         \* the operations of the current startInDirs call
    q,           \* the work channel
    workers,     \* per worker goroutine: 0 at the receive from q, i executing ops[i]
    cancelled,   \* the signal context is done
    now,         \* the clock; startInDirs is called at 0
    idx,         \* runRun's report loop index
    out,         \* what runRun printed for the primary run
    ret          \* runRun's return value: << >> is nil, <<c>> an exitError with code c

VARIABLES
    tree,        \* the file tree rGlob looks at: entry -> "file" | "dir" | "locked"
    pattern,     \* rGlob's argument
    results,     \* what the calls of rGlob(pattern) returned so far
    matches,     \* runRun's matches: the paths of all patterns resolved so far
    matched         \* per pattern resolved so far, the number of its matches

runVars == <<pc, gitDiff, execCmd, patterns, maxThreads, maxDur, dirs, phase, ops,
             q, workers, cancelled, now, idx, out, ret>>

globVars == <<tree, pattern, results, matches, matched>>

vars == <<runVars, globVars>>

\* ------------------------------------------------------------ operations

\* newRunOperation, with the bookkeeping the properties below read:
\*   state      Pending (queued) | Claimed (a worker holds it, cmd.Run not
\*              yet at Start) | Started (child process alive) | Done (done closed)
\*   ctxErr     opCtx.Err(): "" while opCtx is not done
\*   deadline   opCtx's deadline, 0 when it has none or the operation is done
\*   claimedAt  the clock when a worker received it, 0 once it is done
\*   execs      how often Execute was entered for it
\*   behav      what its child process does, "" when none was spawned
\*   outcome    how cmd.Run ended, "" while it has not
\*   atCancel   its state when the signal arrived, "" when none has (or it
\*              was created later)
newRunOperation(d) ==
    [Dir |-> d, state |-> "Pending", Status |-> Unset, Err |-> NilErr,
     ctxErr |-> "", deadline |-> 0, claimedAt |-> 0, execs |-> 0, behav |-> "",
     outcome |-> "", atCancel |-> ""]

OpIds == 1..Len(ops)

Running(i) == ops[i].state \in {"Claimed", "Started"}

\* op.Done(): the non-blocking receive from done succeeds once it is closed
DoneNoCheck(i) == TRUE
Done(i) == ops[i].state = "Done"

NumRunning == Cardinality({i \in OpIds : Running(i)})

\* number of worker goroutines startInDirs spawns
SpawnCountNone(mt, n) == 0
SpawnCountPerDir(mt, n) == n
SpawnCount(mt, n) == IF mt > 0 THEN mt ELSE 0

\* the receive of "for op := range q": what is left in the channel
DequeuePeek(ch) == ch
Dequeue(ch) == Tail(ch)

\* the deadline of context.WithTimeout(ctx, maxDur), created when the worker
\* has received the operation at clock claim (the variant counts from the
\* call of startInDirs, which is clock 0)
OpDeadlineFromPoolStart(claim, dur) == dur
OpDeadline(claim, dur) == claim + dur

\* opCtx.Err() right after the worker derived opCtx at clock t (the variants:
\* opCtx is derived from a context that an earlier timeout has ended, or from
\* one that the signal does not reach)
InitialCtxErrInherited(dl, t) ==
    IF cancelled THEN "Canceled"
    ELSE IF \E j \in OpIds : ops[j].ctxErr = "DeadlineExceeded" THEN "DeadlineExceeded"
    ELSE IF maxDur # 0 /\ dl <= t THEN "DeadlineExceeded"
    ELSE ""
InitialCtxErrDetached(dl, t) ==
    IF maxDur # 0 /\ dl <= t THEN "DeadlineExceeded" ELSE ""
InitialCtxErr(dl, t) ==
    IF cancelled THEN "Canceled"
    ELSE IF maxDur # 0 /\ dl <= t THEN "DeadlineExceeded"
    ELSE ""

\* cmd.Run(): the error it returns, whether that is an *exec.ExitError, and
\* cmd.ProcessState.Success()
CmdRun(kind) ==
    CASE kind = "lookpath"    -> [err |-> LookPathErr, isExit |-> FALSE, ok |-> FALSE]
      [] kind = "ctxCanceled" -> [err |-> ContextCanceled, isExit |-> FALSE, ok |-> FALSE]
      [] kind = "ctxDeadline" -> [err |-> DeadlineExceeded, isExit |-> FALSE, ok |-> FALSE]
      [] kind = "exit0"       -> [err |-> NilErr, isExit |-> FALSE, ok |-> TRUE]
      [] kind = "exit1"       -> [err |-> ExitStatus1, isExit |-> TRUE, ok |-> FALSE]
      [] kind = "killed"      -> [err |-> SignalKilled, isExit |-> TRUE, ok |-> FALSE]

\* the status and error Execute records for what cmd.Run returned (the
\* variants leave the status unset on an error, or do not look at
\* ProcessState.Success())
ExecuteResultSuccessOnRun(run) ==
    IF run.err # NilErr /\ ~run.isExit
    THEN [Status |-> Error,
          Err |-> FailedToRun \o (IF run.err = ContextCanceled THEN Interrupted ELSE run.err)]
    ELSE [Status |-> Success, Err |-> run.err]
ExecuteResultNoStatus(run) ==
    IF run.err # NilErr /\ ~run.isExit
    THEN [Status |-> Unset,
          Err |-> FailedToRun \o (IF run.err = ContextCanceled THEN Interrupted ELSE run.err)]
    ELSE IF run.ok THEN [Status |-> Success, Err |-> run.err]
    ELSE [Status |-> Failure, Err |-> run.err]
ExecuteResult(run) ==
    IF run.err # NilErr /\ ~run.isExit
    THEN [Status |-> Error,
          Err |-> FailedToRun \o (IF run.err = ContextCanceled THEN Interrupted ELSE run.err)]
    ELSE IF run.ok THEN [Status |-> Success, Err |-> run.err]
    ELSE [Status |-> Failure, Err |-> run.err]

\* Execute: cmd.Run ends as kind, the result is recorded and done is closed
Execute(i, w, kind) ==
    LET res == ExecuteResult(CmdRun(kind)) IN
    /\ ops' = [ops EXCEPT ![i].state = "Done",
                          ![i].Status = res.Status,
                          ![i].Err = res.Err,
                          ![i].outcome = kind,
                          ![i].deadline = 0,
                          ![i].claimedAt = 0]
    /\ workers' = [workers EXCEPT ![w] = 0]

\* the slice startInDirs fills and returns: operations[i] is made for dirs[i]
operationsReversed(ds) ==
    [k \in 1..Len(ds) |-> newRunOperation(ds[Len(ds) + 1 - k])]
operations(ds) == [k \in 1..Len(ds) |-> newRunOperation(ds[k])]

\* startInDirs: one operation per directory, all queued, the workers spawned
\* and the channel closed on return
startInDirs(ds, ph) ==
    /\ ops' = operations(ds)
    /\ q' = [k \in 1..Len(ds) |-> k]
    /\ workers' = [w \in 1..SpawnCount(maxThreads, Len(ds)) |-> 0]
    /\ now' = 0
    /\ phase' = ph

\* ---------------------------------------------------------------- runRun

\* lines 89-121: the value runRun returns early (<< >> when it goes on) and the
\* directories it collected; the variant drops what fails instead of returning
CollectDirsSkipFailures(cmd, pats) ==
    LET hits == {k \in DOMAIN pats : pats[k] = "hit"} IN
    IF cmd = "bad" \/ hits = {}
    THEN [ret |-> <<MisuseExitCode>>, dirs |-> << >>]
    ELSE [ret |-> << >>, dirs |-> [k \in 1..Cardinality(hits) |-> k]]
CollectDirs(cmd, pats) ==
    LET hits == {k \in DOMAIN pats : pats[k] = "hit"} IN
    IF cmd = "bad"
    THEN [ret |-> <<MisuseExitCode>>, dirs |-> << >>]
    ELSE IF \E k \in DOMAIN pats : pats[k] = "bad"
    THEN [ret |-> <<MisuseExitCode>>, dirs |-> << >>]
    ELSE IF \A k \in DOMAIN pats : pats[k] = "none"
    THEN [ret |-> <<MisuseExitCode>>, dirs |-> << >>]
    ELSE IF \E k \in DOMAIN pats : pats[k] = "gone"
    THEN [ret |-> <<FailedCmdExitCode>>, dirs |-> << >>]
    ELSE [ret |-> << >>, dirs |-> [k \in 1..Cardinality(hits) |-> k]]

\* lines 89-122: the command line is split, the patterns are resolved and the
\* matches reduced to directories; runRun returns on the first failure
Collect ==
    /\ pc = "start"
    /\ LET r == CollectDirs(execCmd, patterns) IN
       IF r.ret # << >>
       THEN /\ pc' = "aborted"
            /\ ret' = r.ret
            /\ UNCHANGED <<patterns, dirs>>
       ELSE /\ pc' = "collected"
            /\ dirs' = r.dirs
            /\ patterns' = << >>
            /\ UNCHANGED ret
    /\ UNCHANGED <<gitDiff, execCmd, maxThreads, maxDur, phase, ops, q, workers,
                   cancelled, now, idx, out>>
    /\ UNCHANGED globVars

\* lines 125-132: the git-diff pass is started over all candidate directories
StartFilter ==
    /\ pc = "collected"
    /\ gitDiff
    /\ startInDirs(dirs, "filter")
    /\ pc' = "filterWait"
    /\ UNCHANGED <<gitDiff, execCmd, patterns, maxThreads, maxDur, dirs, cancelled, idx, out, ret>>
    /\ UNCHANGED globVars

\* the filter's reduction: directories whose operation did not end in Success
\* (the variants keep the directories without changes, or every directory)
ChangedDirsInverted ==
    LET keep == {i \in OpIds : ops[i].Status = Success}
        pick[k \in 0..Len(ops)] ==
            IF k = 0 THEN << >>
            ELSE IF k \in keep THEN Append(pick[k - 1], ops[k].Dir)
            ELSE pick[k - 1]
    IN pick[Len(ops)]
ChangedDirsKeepAll == [k \in OpIds |-> ops[k].Dir]
ChangedDirs ==
    LET keep == {i \in OpIds : ops[i].Status # Success}
        pick[k \in 0..Len(ops)] ==
            IF k = 0 THEN << >>
            ELSE IF k \in keep THEN Append(pick[k - 1], ops[k].Dir)
            ELSE pick[k - 1]
    IN pick[Len(ops)]

\* lines 134-157: the poll loop ends once every filter operation is done, then
\* dirs is reduced
FilterReduce ==
    /\ pc = "filterWait"
    /\ \A i \in OpIds : Done(i)
    /\ dirs' = ChangedDirs
    /\ pc' = "filtered"
    /\ UNCHANGED <<gitDiff, execCmd, patterns, maxThreads, maxDur, phase, ops, q, workers, cancelled,
                   now, idx, out, ret>>
    /\ UNCHANGED globVars

\* lines 160-162: the primary run is started
StartPrimary ==
    /\ \/ pc = "collected" /\ ~gitDiff
       \/ pc = "filtered"
    /\ startInDirs(dirs, "primary")
    /\ pc' = "report"
    /\ idx' = 1
    /\ UNCHANGED <<gitDiff, execCmd, patterns, maxThreads, maxDur, dirs, cancelled, out, ret>>
    /\ UNCHANGED globVars

\* what one iteration of the report loop prints for a completed operation
SectionNoErr(op) ==
    <<[kind |-> "header", dir |-> op.Dir, text |-> NilErr]>>
    \o (IF op.Status = Skipped THEN << >>
        ELSE <<[kind |-> "stdall", dir |-> op.Dir, text |-> NilErr]>>)
Section(op) ==
    <<[kind |-> "header", dir |-> op.Dir, text |-> NilErr]>>
    \o (IF op.Status = Skipped THEN << >>
        ELSE <<[kind |-> "stdall", dir |-> op.Dir, text |-> NilErr]>>
             \o (IF op.Err # NilErr
                 THEN <<[kind |-> "err", dir |-> op.Dir, text |-> op.Err]>>
                 ELSE << >>))

\* lines 166-190: wait for operation idx, then print its section
ReportOp ==
    /\ pc = "report"
    /\ idx <= Len(ops)
    /\ Done(idx)
    /\ out' = out \o Section(ops[idx])
    /\ idx' = idx + 1
    /\ UNCHANGED <<pc, gitDiff, execCmd, patterns, maxThreads, maxDur, dirs, phase, ops, q, workers,
                   cancelled, now, ret>>
    /\ UNCHANGED globVars

\* ct[s] of the summary
Count(s) == Cardinality({i \in OpIds : ops[i].Status = s})

\* lines 214-220: the value runRun returns
DispositionFailureOnly(nFailure, nError) ==
    IF nFailure > 0 THEN <<FailedCmdExitCode>> ELSE << >>
Disposition(nFailure, nError) ==
    IF nFailure > 0 \/ nError > 0 THEN <<FailedCmdExitCode>> ELSE << >>

\* lines 192-220: the summary reads every result (Result blocks until done) and
\* runRun returns (the variant returns as soon as one operation has failed)
SummarizeFailFast ==
    /\ pc = "report"
    /\ \E i \in OpIds : Done(i) /\ ops[i].Status \in {Failure, Error}
    /\ ret' = <<FailedCmdExitCode>>
    /\ pc' = "returned"
    /\ UNCHANGED <<gitDiff, execCmd, patterns, maxThreads, maxDur, dirs, phase, ops, q, workers,
                   cancelled, now, idx, out>>
    /\ UNCHANGED globVars

Summarize ==
    /\ pc = "report"
    /\ idx > Len(ops)
    /\ \A i \in OpIds : Done(i)
    /\ ret' = Disposition(Count(Failure), Count(Error))
    /\ pc' = "returned"
    /\ UNCHANGED <<gitDiff, execCmd, patterns, maxThreads, maxDur, dirs, phase, ops, q, workers,
                   cancelled, now, idx, out>>
    /\ UNCHANGED globVars

\* --------------------------------------------------------------- workers

\* "for op := range q" receives the head of the channel; opCtx is derived
Claim(w) ==
    /\ workers[w] = 0
    /\ q # << >>
    /\ LET i == Head(q)
           dl == IF maxDur # 0 THEN OpDeadline(now, maxDur) ELSE 0
       IN /\ ops' = [ops EXCEPT ![i].state = "Claimed",
                                ![i].claimedAt = now,
                                ![i].deadline = dl,
                                ![i].ctxErr = InitialCtxErr(dl, now),
                                ![i].execs = @ + 1]
          /\ workers' = [workers EXCEPT ![w] = i]
    /\ q' = Dequeue(q)
    /\ UNCHANGED <<pc, gitDiff, execCmd, patterns, maxThreads, maxDur, dirs, phase, cancelled, now,
                   idx, out, ret>>
    /\ UNCHANGED globVars

\* r.Cmd of the operations of phase ph has no element: the filter runs
\* git diff --exit-code, the primary run runs execCmd
EmptyCmd(ph) == ph = "primary" /\ execCmd = "empty"

\* Execute up to cmd.Start: the lookup error, a context that is already done,
\* or the child process is spawned
Start(w) ==
    /\ workers[w] > 0
    /\ ops[workers[w]].state = "Claimed"
    /\ ~EmptyCmd(phase)
    /\ LET i == workers[w] IN
       \E b \in Behaviours :
          IF b = "nolaunch" THEN Execute(i, w, "lookpath")
          ELSE IF ops[i].ctxErr = "Canceled" THEN Execute(i, w, "ctxCanceled")
          ELSE IF ops[i].ctxErr = "DeadlineExceeded" THEN Execute(i, w, "ctxDeadline")
          ELSE /\ ops' = [ops EXCEPT ![i].state = "Started",
                                     ![i].behav = b]
               /\ UNCHANGED workers
    /\ UNCHANGED <<pc, gitDiff, execCmd, patterns, maxThreads, maxDur, dirs, phase, q, cancelled, now,
                   idx, out, ret>>
    /\ UNCHANGED globVars

\* Execute at r.Cmd[0] with an empty r.Cmd: the index is out of range, the
\* worker goroutine panics and the runtime ends the whole process, runRun and
\* the other workers included; runRun returns nothing
Panic(w) ==
    /\ workers[w] > 0
    /\ ops[workers[w]].state = "Claimed"
    /\ EmptyCmd(phase)
    /\ pc' = "panicked"
    /\ ops' = [ops EXCEPT ![workers[w]].outcome = "panic"]
    /\ workers' = << >>
    /\ q' = << >>
    /\ UNCHANGED <<gitDiff, execCmd, patterns, maxThreads, maxDur, dirs, phase, cancelled, now,
                   idx, out, ret>>
    /\ UNCHANGED globVars

\* the child process exits by itself and Execute returns
Exit(w) ==
    /\ workers[w] > 0
    /\ ops[workers[w]].state = "Started"
    /\ ops[workers[w]].ctxErr = ""
    /\ ops[workers[w]].behav \in {"exit0", "exit1"}
    /\ Execute(workers[w], w, ops[workers[w]].behav)
    /\ UNCHANGED <<pc, gitDiff, execCmd, patterns, maxThreads, maxDur, dirs, phase, q, cancelled, now,
                   idx, out, ret>>
    /\ UNCHANGED globVars

\* opCtx is done while the child process runs: it is killed and Execute returns
Kill(w) ==
    /\ workers[w] > 0
    /\ ops[workers[w]].state = "Started"
    /\ ops[workers[w]].ctxErr # ""
    /\ Execute(workers[w], w, "killed")
    /\ UNCHANGED <<pc, gitDiff, execCmd, patterns, maxThreads, maxDur, dirs, phase, q, cancelled, now,
                   idx, out, ret>>
    /\ UNCHANGED globVars

\* ----------------------------------------------------------- environment

\* SIGINT or SIGTERM: the signal context, and every opCtx derived from it that
\* is not done yet, is cancelled
Cancel ==
    /\ ~cancelled
    /\ pc \notin {"returned", "aborted", "panicked"}
    /\ cancelled' = TRUE
    /\ ops' = [i \in OpIds |->
                 [ops[i] EXCEPT !.atCancel = ops[i].state,
                                !.ctxErr = IF Running(i) /\ ops[i].ctxErr = ""
                                           THEN "Canceled" ELSE @]]
    /\ UNCHANGED <<pc, gitDiff, execCmd, patterns, maxThreads, maxDur, dirs, phase, q, workers, now,
                   idx, out, ret>>
    /\ UNCHANGED globVars

\* an opCtx whose timer is still pending
TimerLive(i) == Running(i) /\ ops[i].ctxErr = "" /\ ops[i].deadline > now

\* time passes while a timer is pending (the clock is read by nothing else);
\* the timers that reach their deadline fire
Tick ==
    /\ maxDur # 0
    /\ pc # "panicked"
    /\ \E i \in OpIds : TimerLive(i)
    /\ now' = now + 1
    /\ ops' = [i \in OpIds |->
                 [ops[i] EXCEPT !.ctxErr = IF TimerLive(i) /\ ops[i].deadline <= now + 1
                                           THEN "DeadlineExceeded" ELSE @]]
    /\ UNCHANGED <<pc, gitDiff, execCmd, patterns, maxThreads, maxDur, dirs, phase, q, workers,
                   cancelled, idx, out, ret>>
    /\ UNCHANGED globVars

\* ------------------------------------------------------------ file system

\* A path is the sequence of its separator-delimited segments, relative to the
\* working directory; <<".">> is the working directory itself.  A pattern is
\* such a sequence as well; a segment of it is one of Tokens:
\*   "a"    a literal name
\*   "."    the current directory
\*   "*"    any name
\*   "**"   the globstar when it is a whole segment of rGlob's pattern; for
\*          filepath.Match the same as "*"
\*   "**a"  a segment that merely contains "**": any name that ends in a
\*   "["    an unterminated character class, which is malformed
\* The names of directory entries become pattern segments too, when rGlob joins
\* a walked directory with the rest of the pattern.
Tokens == {"a", ".", "*", "**", "**a", "["}

\* the names of directory entries, in the order sort.Strings gives them; the
\* first one is a legal file name that reads as a character class in a
\* pattern, where it matches the name a
Names == <<"[a]", "a", "b">>

NameSet == {Names[k] : k \in DOMAIN Names}

\* the sets of at most k entries in which every entry's parent is an entry
RECURSIVE TreeShapes(_)
TreeShapes(k) ==
    IF k = 0 THEN {{}}
    ELSE LET S == TreeShapes(k - 1) IN
         S \cup UNION {{T \cup {Append(p, n)} : p \in T \cup {<< >>}, n \in NameSet} :
                       T \in S}

HasChild(T, p) == \E n \in NameSet : Append(p, n) \in T

\* a file tree: for every entry whether it is a file, a directory, or a
\* directory that can be neither listed nor searched ("locked"); an entry
\* with children is a directory
TreesOver(T) ==
    {f \in [T -> {"file", "dir", "locked"}] : \A p \in T : HasChild(T, p) => f[p] = "dir"}

\* ------------------------------------------------------------------ rGlob

\* the entry a path leads to: its segments without the "." ones (<< >> is the
\* working directory)
Entry(path) == SelectSeq(path, LAMBDA s : s # ".")

\* filepath.Clean of a relative path without "..": the "." segments go, and
\* what is left of nothing is "."
Clean(path) == IF Entry(path) = << >> THEN <<".">> ELSE Entry(path)

\* filepath.Join: the segments of both, cleaned
Join(path, rest) == Clean(path \o rest)

\* filepath.Dir: the cleaned path without its last segment
Dir(path) == Clean(SubSeq(path, 1, Len(path) - 1))

Exists(path) == Entry(path) = << >> \/ Entry(path) \in DOMAIN tree

IsDir(path) ==
    \/ Entry(path) = << >>
    \/ (Entry(path) \in DOMAIN tree /\ tree[Entry(path)] \in {"dir", "locked"})

\* the directory can be listed and searched for an entry by name
Searchable(path) ==
    \/ Entry(path) = << >>
    \/ (Entry(path) \in DOMAIN tree /\ tree[Entry(path)] = "dir")

\* os.Lstat(path) and os.Stat(path) succeed (there are no symbolic links): the
\* entry exists, and every "." in the path follows a searchable directory
Lstat(path) ==
    /\ Exists(path)
    /\ \A k \in DOMAIN path :
           path[k] = "." => Searchable(SubSeq(path, 1, k - 1))

\* readDirNames / Readdirnames followed by sort.Strings: the sorted names of
\* the entries of a directory that can be listed
ReadDirNames(path) ==
    SelectSeq(Names, LAMBDA n : Searchable(path) /\ Append(Entry(path), n) \in DOMAIN tree)

\* filepath.Match of one pattern segment against one name
Match(tok, name) ==
    CASE tok \in {"*", "**"} -> TRUE
      [] tok = "**a"         -> name \in {"a"}
      [] tok = "[a]"         -> name = "a"
      [] OTHER               -> tok = name

\* hasMeta: the segment contains one of * ? [
HasMeta(tok) == tok \in {"*", "**", "**a", "[a]", "["}

\* the pattern is malformed (filepath.ErrBadPattern)
BadPattern(pat) == \E k \in DOMAIN pat : pat[k] = "["

\* the hist map of rGlob: the paths of more that acc does not hold yet are
\* appended (the variant appends them all)
AppendEvery(acc, more) == acc \o more
RECURSIVE AppendUnseen(_, _)
AppendUnseen(acc, more) ==
    IF more = << >> THEN acc
    ELSE AppendUnseen(IF \E k \in DOMAIN acc : acc[k] = Head(more)
                      THEN acc ELSE Append(acc, Head(more)),
                      Tail(more))

\* glob(dir, pattern, matches) of path/filepath: the entries of the directory
\* dir whose name matches the segment, as Join(dir, name), in sorted order
globDir(dir, tok) ==
    IF ~(Lstat(dir) /\ IsDir(dir)) THEN << >>
    ELSE LET names == SelectSeq(ReadDirNames(dir), LAMBDA n : Match(tok, n))
         IN [k \in DOMAIN names |-> Join(dir, <<names[k]>>)]

\* filepath.Glob of a well-formed pattern: the pattern itself when it has no
\* metacharacter and exists, else the entries that match the last segment in
\* every directory that Glob returns for the segments before it
RECURSIVE globWellFormed(_)
globWellFormed(pat) ==
    IF \A k \in DOMAIN pat : ~HasMeta(pat[k])
    THEN (IF Lstat(pat) THEN <<pat>> ELSE << >>)
    ELSE LET dir == SubSeq(pat, 1, Len(pat) - 1)
             tok == pat[Len(pat)]
         IN IF \A k \in DOMAIN dir : ~HasMeta(dir[k])
            THEN globDir(dir, tok)
            ELSE LET ds == globWellFormed(dir)
                     acc[k \in 0..Len(ds)] ==
                         IF k = 0 THEN << >> ELSE acc[k - 1] \o globDir(ds[k], tok)
                 IN acc[Len(ds)]

\* filepath.Glob: the matches and whether the error is ErrBadPattern
Glob(pat) ==
    IF BadPattern(pat) THEN [err |-> TRUE, m |-> << >>]
    ELSE [err |-> FALSE, m |-> globWellFormed(pat)]

\* filepath.Walk(root, fn), reduced to what rGlob's callback looks at: the
\* directories it is called for without an error, in the order of the calls.
\* A root or entry that does not exist, a file and a directory that cannot be
\* listed contribute nothing; the children are walked in sorted order.
RECURSIVE WalkDirs(_)
WalkDirs(path) ==
    IF ~Lstat(path) THEN << >>
    ELSE IF ~Searchable(path) THEN << >>
    ELSE LET names == ReadDirNames(path)
             below[k \in 0..Len(names)] ==
                 IF k = 0 THEN << >>
                 ELSE below[k - 1] \o WalkDirs(Join(path, <<names[k]>>))
         IN <<path>> \o below[Len(names)]

\* the error filepath.Walk returns on account of a root it cannot stat or a
\* directory it cannot list: none, since the callback answers every error it
\* is handed with nil (the variant returns it)
WalkErrorReturned(root) ==
    \/ ~Lstat(root)
    \/ \E d \in DOMAIN tree :
          /\ tree[d] = "locked"
          /\ Len(Entry(root)) <= Len(d)
          /\ SubSeq(d, 1, Len(Entry(root))) = Entry(root)
WalkError(root) == FALSE

\* index of the first segment that is exactly "**", 0 when there is none (the
\* variant takes a segment that contains "**" for one as well)
FirstContainsGlobstar(pat) ==
    IF \E k \in DOMAIN pat : pat[k] \in {"**", "**a"}
    THEN CHOOSE k \in DOMAIN pat :
             pat[k] \in {"**", "**a"} /\ \A j \in 1..(k - 1) : pat[j] \notin {"**", "**a"}
    ELSE 0
FirstGlobstar(pat) ==
    IF \E k \in DOMAIN pat : pat[k] = "**"
    THEN CHOOSE k \in DOMAIN pat :
             pat[k] = "**" /\ \A j \in 1..(k - 1) : pat[j] # "**"
    ELSE 0

\* rGlob: the matches and whether an error is returned
RECURSIVE rGlob(_)
rGlob(pat) ==
    LET g == FirstGlobstar(pat) IN
    IF g = 0 THEN Glob(pat)
    ELSE LET pre == Clean(SubSeq(pat, 1, g - 1))
             post == IF g = Len(pat) THEN <<"*">>
                     ELSE Clean(SubSeq(pat, g + 1, Len(pat)))
             visited == WalkDirs(pre)
             acc[k \in 0..Len(visited)] ==
                 IF k = 0 THEN [err |-> FALSE, m |-> << >>]
                 ELSE LET prev == acc[k - 1]
                          r == rGlob(Join(visited[k], post))
                      IN IF prev.err \/ r.err THEN [err |-> TRUE, m |-> << >>]
                         ELSE [err |-> FALSE, m |-> AppendUnseen(prev.m, r.m)]
         IN IF WalkError(pre) THEN [err |-> TRUE, m |-> << >>]
            ELSE acc[Len(visited)]

\* no file tree is looked at while the run alone is
GlobAtRest ==
    /\ tree = << >>
    /\ pattern = << >>
    /\ results = << >>
    /\ matches = << >>
    /\ matched = << >>

\* ------------------------------------------------------------------ spec

\* runRun is entered: the signal context exists, nothing is collected yet
Init ==
    /\ pc = "start"
    /\ gitDiff \in BOOLEAN
    /\ execCmd \in {"bad", "ok"}
    /\ \E n \in 1..MaxDirs : patterns \in [1..n -> PatternOutcomes]
    /\ maxThreads \in 0..MaxThreads
    /\ maxDur \in 0..MaxDur
    /\ dirs = << >>
    /\ phase = "none"
    /\ ops = << >>
    /\ q = << >>
    /\ workers = << >>
    /\ cancelled = FALSE
    /\ now = 0
    /\ idx = 0
    /\ out = << >>
    /\ ret = << >>
    /\ GlobAtRest

Next ==
    \/ Collect
    \/ StartFilter
    \/ FilterReduce
    \/ StartPrimary
    \/ ReportOp
    \/ Summarize
    \/ \E w \in DOMAIN workers : Claim(w)
    \/ \E w \in DOMAIN workers : Start(w)
    \/ \E w \in DOMAIN workers : Exit(w)
    \/ \E w \in DOMAIN workers : Kill(w)
    \/ Cancel
    \/ Tick

Spec == Init /\ [][Next]_vars

\* the Go scheduler runs every goroutine that can take a step: runRun's own
\* steps and each worker's receive, cmd.Start and return from cmd.Run are
\* taken once they stay possible; a child process that is about to exit or has
\* been killed does end, and a pending timer fires.  Nothing obliges a signal
\* to arrive.
Fairness ==
    /\ WF_vars(Collect)
    /\ WF_vars(StartFilter)
    /\ WF_vars(FilterReduce)
    /\ WF_vars(StartPrimary)
    /\ WF_vars(ReportOp)
    /\ WF_vars(Summarize)
    /\ \A w \in 1..MaxThreads :
          /\ WF_vars(w \in DOMAIN workers /\ Claim(w))
          /\ WF_vars(w \in DOMAIN workers /\ Start(w))
          /\ WF_vars(w \in DOMAIN workers /\ Exit(w))
          /\ WF_vars(w \in DOMAIN workers /\ Kill(w))
    /\ WF_vars(Tick)

SpecLive == Init /\ [][Next]_vars /\ Fairness

\* -------------------------------------------------------------- SpecArgs

\* runRun entered with whatever follows the patterns on the command line:
\* cobra.MinimumNArgs(2) counts the patterns too, so nothing, or only blank
\* words, may follow them, and shlex.Split then returns no word and no error
ArgsInit ==
    /\ pc = "start"
    /\ gitDiff \in BOOLEAN
    /\ execCmd \in {"bad", "empty", "ok"}
    /\ \E n \in 1..MaxDirs : patterns \in [1..n -> PatternOutcomes]
    /\ maxThreads \in 0..MaxThreads
    /\ maxDur \in 0..MaxDur
    /\ dirs = << >>
    /\ phase = "none"
    /\ ops = << >>
    /\ q = << >>
    /\ workers = << >>
    /\ cancelled = FALSE
    /\ now = 0
    /\ idx = 0
    /\ out = << >>
    /\ ret = << >>
    /\ GlobAtRest

ArgsNext ==
    \/ Next
    \/ \E w \in DOMAIN workers : Panic(w)

SpecArgs == ArgsInit /\ [][ArgsNext]_vars

\* -------------------------------------------------------------- SpecGlob

\* rGlob called on one pattern over one file tree, and called once more on
\* the unchanged tree

\* two sibling directories with a file in each
SiblingTrees ==
    {(<<Names[p[1]]>> :> "dir" @@ <<Names[p[2]]>> :> "dir"
      @@ <<Names[p[1]], c>> :> "file" @@ <<Names[p[2]], d>> :> "file") :
     p \in {xy \in (DOMAIN Names) \X (DOMAIN Names) : xy[1] < xy[2]},
     c \in NameSet, d \in NameSet}

\* the file trees: every one of at most MaxEntries entries, and the sibling
\* trees
Trees == UNION {TreesOver(T) : T \in TreeShapes(MaxEntries)} \cup SiblingTrees

\* the patterns rGlob is called with here: every one of at most MaxSegments
\* segments that are a name, "*" or "**"; every one of at most two segments,
\* and every x/**/y, over all tokens but "."; and those of the shape **/M/**/S
Patterns ==
    UNION {[1..k -> {"a", "*", "**"}] : k \in 1..MaxSegments}
    \cup UNION {[1..k -> Tokens \ {"."}] : k \in 1..2}
    \cup {<<x, "**", y>> : x, y \in Tokens \ {"."}}
    \cup {<<"**", m, "**", s>> : m \in {"a", "*"}, s \in {"a", "*"}}

\* patterns whose prefix is the character class [a], a wildcard that is
\* spelled as the name of an entry is
ClassPatterns == {<<"[a]", "**", y>> : y \in {"a", "*"}}

\* the variables of the run, at rest while rGlob alone is looked at
RunAtRest ==
    /\ pc = "start"
    /\ gitDiff = FALSE
    /\ execCmd = "ok"
    /\ patterns = << >>
    /\ maxThreads = 0
    /\ maxDur = 0
    /\ dirs = << >>
    /\ phase = "none"
    /\ ops = << >>
    /\ q = << >>
    /\ workers = << >>
    /\ cancelled = FALSE
    /\ now = 0
    /\ idx = 0
    /\ out = << >>
    /\ ret = << >>

GlobInit ==
    /\ tree \in Trees
    /\ pattern \in Patterns \cup ClassPatterns
    /\ results = << >>
    /\ matches = << >>
    /\ matched = << >>
    /\ RunAtRest

\* rGlob(pattern) returns
CallRGlob ==
    /\ Len(results) < 2
    /\ results' = Append(results, rGlob(pattern))
    /\ UNCHANGED <<tree, pattern, matches, matched>>
    /\ UNCHANGED runVars

GlobNext == CallRGlob

SpecGlob == GlobInit /\ [][GlobNext]_vars

\* -------------------------------------------------------------- SpecWalk

\* rGlob called on a globstar pattern, and called again after directories of
\* the tree became unreadable

WalkPatterns == {p \in Patterns : FirstGlobstar(p) # 0}

WalkInit ==
    /\ tree \in Trees
    /\ pattern \in WalkPatterns
    /\ results = << >>
    /\ matches = << >>
    /\ matched = << >>
    /\ RunAtRest

\* a readable directory loses its permissions: it is "locked", and what lies
\* in it is out of reach
Chmod ==
    /\ Len(results) = 1
    /\ \E d \in DOMAIN tree :
          /\ tree[d] = "dir"
          /\ tree' = [e \in {e \in DOMAIN tree :
                                ~(Len(d) < Len(e) /\ SubSeq(e, 1, Len(d)) = d)} |->
                         IF e = d THEN "locked" ELSE tree[e]]
    /\ UNCHANGED <<pattern, results, matches, matched>>
    /\ UNCHANGED runVars

WalkNext ==
    \/ CallRGlob
    \/ Chmod

SpecWalk == WalkInit /\ [][WalkNext]_vars

\* ----------------------------------------------------------- SpecCollect

\* runRun from its entry to the collected directories (lines 95-122), with
\* rGlob and os.Stat at work on a file tree

\* the patterns given on the command line
ArgPatterns ==
    {<<"a">>, <<"b">>, <<".", "a">>, <<"a", "*">>, <<"*">>, <<"**">>,
     <<"**", "b">>, <<"b", "**">>, <<"a", "**", "[">>, <<"[">>}

\* lines 108-121 without a failing os.Stat: every match that is a directory
\* and the directory of every match that is a file, each string once, in the
\* order of the first appearance (the variant does not look at hist)
RECURSIVE reduceNoHist(_, _)
reduceNoHist(ds, ms) ==
    IF ms = << >> THEN ds
    ELSE LET m == IF IsDir(Head(ms)) THEN Head(ms) ELSE Dir(Head(ms))
         IN reduceNoHist(Append(ds, m), Tail(ms))
RECURSIVE reduce(_, _)
reduce(ds, ms) ==
    IF ms = << >> THEN ds
    ELSE LET m == IF IsDir(Head(ms)) THEN Head(ms) ELSE Dir(Head(ms))
         IN reduce(IF \E k \in DOMAIN ds : ds[k] = m THEN ds ELSE Append(ds, m),
                   Tail(ms))

\* line 104: no pattern matched anything (the variant never says so)
NoPathsMatchNever(ms) == FALSE
NoPathsMatch(ms) == Len(ms) = 0

CollectInit ==
    /\ tree \in Trees
    /\ pattern = << >>
    /\ results = << >>
    /\ matches = << >>
    /\ matched = << >>
    /\ RunAtRest

\* lines 97-103: one iteration of the loop over the patterns
ResolvePattern ==
    /\ pc = "start"
    /\ Len(matched) < MaxDirs
    /\ \E p \in ArgPatterns :
          LET r == rGlob(p) IN
          /\ pattern' = p
          /\ IF r.err
             THEN /\ pc' = "aborted"
                  /\ ret' = <<MisuseExitCode>>
                  /\ UNCHANGED <<matches, matched>>
             ELSE /\ matches' = matches \o r.m
                  /\ matched' = Append(matched, Len(r.m))
                  /\ UNCHANGED <<pc, ret>>
    /\ UNCHANGED <<tree, results, dirs>>
    /\ UNCHANGED <<gitDiff, execCmd, patterns, maxThreads, maxDur, phase, ops, q,
                   workers, cancelled, now, idx, out>>

\* lines 104-122: after the last pattern; gone is the match whose os.Stat
\* fails because it vanished since rGlob returned it (0: none)
ReduceDirs ==
    /\ pc = "start"
    /\ IF NoPathsMatch(matches)
       THEN /\ pc' = "aborted"
            /\ ret' = <<MisuseExitCode>>
            /\ UNCHANGED dirs
       ELSE \E gone \in 0..Len(matches) :
               IF gone > 0
               THEN /\ pc' = "aborted"
                    /\ ret' = <<FailedCmdExitCode>>
                    /\ UNCHANGED dirs
               ELSE /\ pc' = "collected"
                    /\ dirs' = reduce(<< >>, matches)
                    /\ UNCHANGED ret
    /\ UNCHANGED <<tree, pattern, results, matches, matched>>
    /\ UNCHANGED <<gitDiff, execCmd, patterns, maxThreads, maxDur, phase, ops, q,
                   workers, cancelled, now, idx, out>>

CollectNext ==
    \/ ResolvePattern
    \/ ReduceDirs

SpecCollect == CollectInit /\ [][CollectNext]_vars

\* ---------------------------------------------------------------- claims

Range(f) == {f[k] : k \in DOMAIN f}

Holders(i) == {w \in DOMAIN workers : workers[w] = i}

\* C1: with a concurrency limit of at least 1, the operations that are Running
\* (claimed by a worker, done not yet closed) never number more than the limit.
C1_ConcurrencyBound ==
    maxThreads >= 1 => NumRunning <= maxThreads

\* the pool is saturated: as many operations run as the limit allows while
\* another one waits in the channel
C1_Witness ==
    /\ maxThreads >= 1
    /\ NumRunning = maxThreads
    /\ q # << >>

\* C2: an operation is received from the channel by one worker only and
\* Execute is entered for it once: a queued operation is held by nobody, a
\* running one by exactly one worker, nothing is executed twice, and when runRun
\* returns every operation was executed exactly once.
C2_ExclusiveClaim ==
    /\ \A i \in OpIds :
          /\ ops[i].execs <= 1
          /\ Cardinality(Holders(i)) <= 1
          /\ ops[i].state = "Pending" => ops[i].execs = 0 /\ Holders(i) = {}
          /\ Running(i) => ops[i].execs = 1 /\ Cardinality(Holders(i)) = 1
          /\ Done(i) => ops[i].execs = 1 /\ Holders(i) = {}
          /\ Cardinality({k \in DOMAIN q : q[k] = i}) =
                 (IF ops[i].state = "Pending" THEN 1 ELSE 0)
    /\ pc = "returned" => \A i \in OpIds : ops[i].execs = 1

\* two workers execute two different operations at the same time
C2_Witness ==
    \E w1, w2 \in DOMAIN workers :
        /\ w1 # w2
        /\ workers[w1] > 0
        /\ workers[w2] > 0
        /\ workers[w1] # workers[w2]

\* C3: an operation whose done channel is closed has status Success, Failure
\* or Error, never Skipped and never the unset status.
C3_CompletedStatus ==
    \A i \in OpIds : Done(i) => ops[i].Status \in {Success, Failure, Error}

\* two completed operations, one in Error and one in Failure
C3_Witness ==
    \E i, j \in OpIds :
        /\ Done(i) /\ ops[i].Status = Error
        /\ Done(j) /\ ops[j].Status = Failure

\* C4: the status follows the outcome of the process: exit code 0 gives
\* Success, another clean exit code gives Failure, and everything else (no
\* launch, a context error, a death by signal) gives Error with an error value.
C4_StatusFromOutcome ==
    \A i \in OpIds : Done(i) =>
        /\ ops[i].outcome = "exit0" => ops[i].Status = Success
        /\ ops[i].outcome = "exit1" => ops[i].Status = Failure
        /\ ops[i].outcome \notin {"exit0", "exit1"} =>
               ops[i].Status = Error /\ ops[i].Err # NilErr

C6_CancelledRunningEndsError ==
    \A i \in OpIds :
        Done(i) /\ ops[i].atCancel \in {"Claimed", "Started"} => ops[i].Status = Error

C8_TimedOutEndsError ==
    \A i \in OpIds :
        Done(i) /\ ops[i].ctxErr = "DeadlineExceeded" /\ ops[i].behav # "" =>
            ops[i].Status = Error

C10_TimeoutFromClaim ==
    \A i \in OpIds :
        /\ ops[i].state = "Pending" =>
               ops[i].ctxErr = "" /\ ops[i].deadline = 0 /\ ops[i].outcome = ""
        /\ Running(i) /\ ops[i].ctxErr = "DeadlineExceeded" =>
               now >= ops[i].claimedAt + maxDur

\* an operation that waited in the channel for at least a whole timeout and
\* then ran into its own timeout
C10_Witness ==
    \E i \in OpIds :
        /\ maxDur # 0
        /\ Running(i)
        /\ ops[i].claimedAt >= maxDur
        /\ ops[i].ctxErr = "DeadlineExceeded"

\* why an operation's run was cut short, "" when it was not: its process could
\* not be launched, the signal context was cancelled, or its timeout fired
Cause(i) ==
    IF ops[i].state # "Done" THEN ""
    ELSE IF ops[i].outcome = "lookpath" THEN "launch"
    ELSE IF ops[i].outcome \in {"ctxCanceled", "ctxDeadline", "killed"}
    THEN (IF ops[i].ctxErr = "Canceled" THEN "cancel" ELSE "timeout")
    ELSE ""

\* C11: two operations that were cut short by different causes (cancellation,
\* timeout, failure to launch) never carry the same error.
C11_CauseIdentified ==
    \A i, j \in OpIds :
        Cause(i) # "" /\ Cause(j) # "" /\ Cause(i) # Cause(j) =>
            ops[i].Err # ops[j].Err

\* C12: done is closed once per operation, and from then on the operation
\* stays complete with the same status and error, whatever happens to the
\* signal context or to the other operations of the same startInDirs call.
C12_DoneOnceResultFrozen ==
    [][\A i \in OpIds :
          /\ ops[i].execs <= 1
          /\ (ops[i].state = "Done" /\ phase' = phase) =>
                /\ i \in DOMAIN ops'
                /\ ops'[i].state = "Done"
                /\ ops'[i].execs = ops[i].execs
                /\ ops'[i].Status = ops[i].Status
                /\ ops'[i].Err = ops[i].Err
                /\ ops'[i].outcome = ops[i].outcome]_vars

\* an operation completed in Success before the signal arrived, and the
\* timeout of its sibling fired as well: its result is still the same
C12_Witness ==
    \E i, j \in OpIds :
        /\ i # j
        /\ ops[i].atCancel = "Done"
        /\ ops[i].state = "Done"
        /\ ops[i].Status = Success
        /\ ops[i].execs = 1
        /\ ops[j].atCancel # ""
        /\ ops[j].ctxErr = "DeadlineExceeded"

\* C13: Done() answers true exactly for a closed done channel, and runRun
\* reads a result only of a completed operation: the filter reduction and the
\* summary after all operations completed, a report section after its own.
C13_ReadsAfterDone ==
    [][/\ \A i \in OpIds : Done(i) <=> ops[i].state = "Done"
       /\ (pc = "filterWait" /\ pc' = "filtered") =>
              \A i \in OpIds : ops[i].state = "Done"
       /\ (pc = "report" /\ idx' = idx + 1) => ops[idx].state = "Done"
       /\ (pc = "report" /\ pc' = "returned") =>
              \A i \in OpIds : ops[i].state = "Done"]_vars

\* the report loop printed the first section and waits for the second
\* operation, which still runs
C13_Witness ==
    /\ pc = "report"
    /\ Len(ops) = 2
    /\ idx = 2
    /\ out # << >>
    /\ ops[1].state = "Done"
    /\ Running(2)

\* C14: the operations startInDirs returned are one per directory of its input
\* list, operation i for directory i, whatever the number of workers and
\* whichever operation was received or completed first.  (dirs is the input
\* list while the filter pass is polled and during the whole primary pass.)
C14_HandlePerDirInOrder ==
    (pc = "filterWait" \/ phase = "primary") =>
        /\ Len(ops) = Len(dirs)
        /\ \A k \in 1..Len(dirs) : ops[k].Dir = dirs[k]

\* the second operation completed while the first one still runs, and the
\* handles are still in the order of the directories
C14_Witness ==
    /\ phase = "primary"
    /\ Len(dirs) = 2
    /\ Len(ops) = 2
    /\ ops[2].state = "Done"
    /\ Running(1)
    /\ ops[1].Dir = dirs[1]
    /\ ops[2].Dir = dirs[2]

FilterFoundChanges(d) ==
    \E k \in OpIds : ops[k].Dir = d /\ ops[k].Status \in {Failure, Error}

\* C16: with a filter, the reduction leaves exactly the candidate directories
\* whose filter operation ended in Failure or Error, in the original order;
\* the primary pass is started over that list, so a directory whose filter
\* operation ended in Success gets no primary operation, and nothing is
\* printed for a directory without a primary operation.
C16_FilterKeepsChanged ==
    [][/\ (pc = "filterWait" /\ pc' = "filtered") =>
              dirs' = SelectSeq(dirs, FilterFoundChanges)
       /\ (pc = "filtered" /\ pc' = "report") =>
              /\ dirs' = dirs
              /\ [k \in DOMAIN ops' |-> ops'[k].Dir] = dirs
              /\ \A i \in OpIds : ops[i].Status = Success =>
                     \A k \in DOMAIN ops' : ops'[k].Dir # ops[i].Dir
       /\ phase' = "primary" =>
              \A k \in DOMAIN out' :
                  \E j \in DOMAIN ops' : ops'[j].Dir = out'[k].dir]_vars

\* the filter dropped the first of two directories; the primary pass ran and
\* reported the second one only
C16_Witness ==
    /\ pc = "returned"
    /\ gitDiff
    /\ dirs = <<2>>
    /\ Len(ops) = 1
    /\ out # << >>
    /\ \A k \in DOMAIN out : out[k].dir = 2

\* C17 as stated: when the primary pass is started, every directory whose
\* filter operation ended in Success has a primary operation, which is Skipped.
C17_ExcludedIsSkipped ==
    [][(pc = "filtered" /\ pc' = "report") =>
          \A i \in OpIds : ops[i].Status = Success =>
              \E k \in DOMAIN ops' :
                  /\ ops'[k].Dir = ops[i].Dir
                  /\ ops'[k].Status = Skipped]_vars

\* C17 as amended: a directory whose filter operation ended in Success has no
\* primary operation at all, and no operation ever has the status Skipped:
\* every primary operation starts Pending with the unset status.
C17_ExcludedHasNoOperation ==
    [][/\ (pc = "filtered" /\ pc' = "report") =>
              /\ Len(ops') = Cardinality({i \in OpIds : ops[i].Status # Success})
              /\ \A k \in DOMAIN ops' :
                     /\ ops'[k].state = "Pending"
                     /\ ops'[k].Status = Unset
                     /\ \E i \in OpIds : /\ ops[i].Dir = ops'[k].Dir
                                         /\ ops[i].Status # Success
       /\ \A k \in DOMAIN ops' : ops'[k].Status # Skipped]_vars

\* the primary pass after a filter that dropped the first directory: the only
\* operation is the one of the second directory, and it completed
C17_Witness ==
    /\ pc = "report"
    /\ gitDiff
    /\ phase = "primary"
    /\ Len(ops) = 1
    /\ ops[1].Dir = 2
    /\ ops[1].state = "Done"
    /\ ops[1].Status # Skipped

\* C18: with no timeout, no signal and a concurrency of 1..|D| over a
\* non-empty directory list, a command that exits 0 in every directory leaves
\* every operation in Success and runRun returns nil; a command that exits
\* non-zero in every directory leaves every operation in Failure and runRun
\* returns the exitError with FailedCmdExitCode.
C18_FixedExitCode ==
    (/\ phase = "primary"
     /\ maxDur = 0
     /\ ~cancelled
     /\ Len(ops) >= 1
     /\ maxThreads \in 1..Len(ops))
    =>
    /\ \A i \in OpIds : ops[i].state = "Done" =>
          /\ ops[i].behav = "exit0" => ops[i].Status = Success
          /\ ops[i].behav = "exit1" => ops[i].Status = Failure
    /\ (pc = "returned" /\ \A i \in OpIds : ops[i].behav = "exit0") =>
          /\ \A i \in OpIds : ops[i].Status = Success
          /\ ret = << >>
    /\ (pc = "returned" /\ \A i \in OpIds : ops[i].behav = "exit1") =>
          /\ \A i \in OpIds : ops[i].Status = Failure
          /\ ret = <<FailedCmdExitCode>>

\* two directories, two workers, the command exited non-zero in both
C18_Witness ==
    /\ pc = "returned"
    /\ phase = "primary"
    /\ maxDur = 0
    /\ ~cancelled
    /\ Len(ops) = 2
    /\ maxThreads = 2
    /\ \A i \in OpIds : ops[i].behav = "exit1" /\ ops[i].Status = Failure
    /\ ret = <<FailedCmdExitCode>>

\* C19: whatever its siblings ended in, a completed operation has the status
\* of its own process (exit 0: Success, another exit code: Failure, no launch
\* or a context that was done: Error), and runRun returns only when every
\* primary operation was executed once and has completed.
C19_FailureIsolated ==
    /\ \A i \in OpIds : ops[i].state = "Done" =>
          /\ ops[i].outcome = "exit0" => ops[i].Status = Success
          /\ ops[i].outcome = "exit1" => ops[i].Status = Failure
          /\ ops[i].outcome \in {"lookpath", "ctxCanceled", "ctxDeadline"} =>
                 ops[i].Status = Error
    /\ pc = "returned" =>
          \A i \in OpIds : ops[i].state = "Done" /\ ops[i].execs = 1

\* one worker: the first operation failed, and the operation the same worker
\* received after it ended in Success
C19_Witness ==
    /\ pc = "returned"
    /\ maxThreads = 1
    /\ Len(ops) = 2
    /\ ops[1].Status \in {Failure, Error}
    /\ ops[2].Status = Success
    /\ ret = <<FailedCmdExitCode>>

\* C20: when rGlob fails for a pattern or os.Stat fails for a match, runRun
\* returns an exitError from the collection; a run that returned from there
\* has created no operation, no channel entry and no worker, and does nothing
\* afterwards.
C20_SetupFailureAborts ==
    [][/\ (/\ pc = "start"
           /\ pc' # "start"
           /\ \E k \in DOMAIN patterns : patterns[k] \in {"bad", "gone"})
          => /\ pc' = "aborted"
             /\ ret' \in {<<MisuseExitCode>>, <<FailedCmdExitCode>>}
       /\ pc' = "aborted" =>
              /\ ops' = << >>
              /\ q' = << >>
              /\ workers' = << >>
              /\ phase' = "none"
       /\ pc # "aborted"]_vars

\* one pattern matched a directory, the match of the other could not be
\* stat'ed: runRun returned FailedCmdExitCode and no operation exists
C20_Witness ==
    /\ pc = "aborted"
    /\ \E k \in DOMAIN patterns : patterns[k] = "gone"
    /\ \E k \in DOMAIN patterns : patterns[k] = "hit"
    /\ ret = <<FailedCmdExitCode>>
    /\ ops = << >>
    /\ workers = << >>

\* ------------------------------------------------- what a pattern matches

\* one segment of a pattern read against one name: "*" is any name, "**a" any
\* name that ends in a, "[a]" the name a, a literal name itself; nothing
\* matches "["
SegmentMatches(tok, name) ==
    CASE tok = "*"   -> TRUE
      [] tok = "**a" -> name = "a"
      [] tok = "[a]" -> name = "a"
      [] OTHER       -> tok = name

IsPrefix(p, e) == Len(p) <= Len(e) /\ SubSeq(e, 1, Len(p)) = p

\* the directories at every depth below the entry base, base itself included
\* (depth zero); none when base is no directory
DirsBelow(base) ==
    {d \in DOMAIN tree \cup {<< >>} : IsDir(base) /\ IsDir(d) /\ IsPrefix(base, d)}

\* the entries of the tree that the pattern pat matches when it is read from
\* the directory base: a globstar segment stands for any chain of directories,
\* the empty one included, and a trailing one for any entry under such a chain
RECURSIVE Matching(_, _)
Matching(base, pat) ==
    IF pat = << >> THEN {base}
    ELSE IF Head(pat) = "**"
    THEN UNION {Matching(d, IF Tail(pat) = << >> THEN <<"*">> ELSE Tail(pat)) :
                d \in DirsBelow(base)}
    ELSE IF Head(pat) = "."
    THEN (IF Searchable(base) THEN Matching(base, Tail(pat)) ELSE {})
    ELSE UNION {Matching(Append(base, n), Tail(pat)) :
                n \in {n \in NameSet : /\ SegmentMatches(Head(pat), n)
                                       /\ Append(base, n) \in DOMAIN tree}}

WellFormed(pat) == \A k \in DOMAIN pat : pat[k] # "["

\* the step is an iteration of the loop over the patterns, for pattern'
Resolves == pc = "start" /\ (matched' # matched \/ pattern' # pattern)

\* the step is the one after the loop
Reduces == pc = "start" /\ pc' # "start" /\ pattern' = pattern

C22_NoGlobstarIsGlob ==
    \A k \in DOMAIN results :
        (\A j \in DOMAIN pattern : pattern[j] # "**") => results[k] = Glob(pattern)

\* a pattern with a segment that contains "**" and no globstar segment has
\* been resolved, and it matched an entry
C22_Witness ==
    /\ results # << >>
    /\ \E j \in DOMAIN pattern : pattern[j] = "**a"
    /\ \A j \in DOMAIN pattern : pattern[j] # "**"
    /\ ~results[1].err
    /\ results[1].m # << >>

\* the entries that the paths of a result lead to
EntriesOf(r) == {Entry(r.m[i]) : i \in DOMAIN r.m}

NoDuplicates(ms) == \A i, j \in DOMAIN ms : ms[i] = ms[j] => i = j

Globstars(pat) == {k \in DOMAIN pat : pat[k] = "**"}

\* C23: for a well-formed pattern pre/**/post with one globstar, rGlob returns
\* without an error exactly the entries that post matches in pre and in
\* every directory at every depth below pre, each once.
C23_SingleGlobstarUnion ==
    \A k \in DOMAIN results :
        (Cardinality(Globstars(pattern)) = 1 /\ WellFormed(pattern))
        => /\ ~results[k].err
           /\ EntriesOf(results[k]) = Matching(<< >>, pattern)
           /\ NoDuplicates(results[k].m)

\* C24: for a well-formed pattern P/**/M/**/S with two globstars, rGlob
\* returns without an error exactly the entries that S matches at any depth
\* below a directory that M matches at any depth below P, each once.
C24_TwoGlobstars ==
    \A k \in DOMAIN results :
        (/\ WellFormed(pattern)
         /\ \E g, h \in DOMAIN pattern :
               /\ Globstars(pattern) = {g, h}
               /\ g + 1 < h)
        => /\ ~results[k].err
           /\ EntriesOf(results[k]) = Matching(<< >>, pattern)
           /\ NoDuplicates(results[k].m)

\* the place of a name among the sorted names of a directory
Rank(name) == CHOOSE k \in DOMAIN Names : Names[k] = name

\* the entry x comes before the entry y in the pre-order of the tree with
\* siblings in lexicographic order: it is an ancestor of y, or it branches off
\* the path to y with a smaller name
PreOrderBefore(x, y) ==
    /\ x # y
    /\ \/ IsPrefix(x, y)
       \/ \E k \in DOMAIN x \cap DOMAIN y :
             /\ SubSeq(x, 1, k - 1) = SubSeq(y, 1, k - 1)
             /\ Rank(x[k]) < Rank(y[k])

\* the root of the walk and the rest of the pattern after its first globstar
WalkRoot(pat) == Clean(SubSeq(pat, 1, FirstGlobstar(pat) - 1))
Suffix(pat) ==
    IF FirstGlobstar(pat) = Len(pat) THEN <<"*">>
    ELSE Clean(SubSeq(pat, FirstGlobstar(pat) + 1, Len(pat)))

\* the directory nodes of the walk, and the matches found at one of them
Nodes(pat) == Range(WalkDirs(WalkRoot(pat)))
FoundAt(d, pat) == rGlob(Join(d, Suffix(pat))).m

\* the first node, in pre-order, at which the match m is found
FirstNode(m, pat) ==
    CHOOSE d \in Nodes(pat) :
        /\ m \in Range(FoundAt(d, pat))
        /\ \A e \in Nodes(pat) :
               \/ e = d
               \/ PreOrderBefore(Entry(d), Entry(e))
               \/ m \notin Range(FoundAt(e, pat))

Position(m, ms) == CHOOSE i \in DOMAIN ms : ms[i] = m

\* m comes before n in the order of the walk: it is first found at an earlier
\* node, or at the same node and earlier in what is found there
WalkOrder(m, n, pat) ==
    LET dm == FirstNode(m, pat)
        dn == FirstNode(n, pat)
    IN \/ PreOrderBefore(Entry(dm), Entry(dn))
       \/ /\ dm = dn
          /\ Position(m, FoundAt(dm, pat)) < Position(n, FoundAt(dm, pat))

EntriesBelow(pre) ==
    {e \in DOMAIN tree : \E d \in Matching(<< >>, pre) : IsPrefix(d, e) /\ d # e}

\* C26: for a well-formed pattern pre/** whose only globstar is its last
\* segment, rGlob returns without an error every entry at depth one or more
\* below pre, each once, and not pre itself.
C26_TrailingGlobstar ==
    \A k \in DOMAIN results :
        (/\ WellFormed(pattern)
         /\ Globstars(pattern) = {Len(pattern)})
        => /\ ~results[k].err
           /\ EntriesOf(results[k])
                  = EntriesBelow(SubSeq(pattern, 1, Len(pattern) - 1))
           /\ NoDuplicates(results[k].m)

C28_MalformedFails ==
    \A k \in DOMAIN results : ~WellFormed(pattern) => results[k].err

\* the directory a match stands for: itself when it is a directory, the
\* directory that holds it when it is a file
DirOf(m) == IF IsDir(m) THEN m ELSE Dir(m)

\* the first match, in the concatenated lists, that stands for the directory d
FirstMatchOf(d) ==
    CHOOSE i \in DOMAIN matches :
        DirOf(matches[i]) = d /\ \A j \in 1..(i - 1) : DirOf(matches[j]) # d

C30_OneEntryPerDirectory ==
    pc = "collected" =>
        \A k, l \in DOMAIN dirs : Entry(dirs[k]) = Entry(dirs[l]) => k = l

\* the child process of operation i runs, will not exit by itself, and nothing
\* has made its context done
Hung(i) ==
    /\ i \in OpIds
    /\ ops[i].state = "Started"
    /\ ops[i].behav = "hang"
    /\ ops[i].ctxErr = ""

\* operation i exists and its done channel is open / closed
Open(i) == i \in OpIds /\ ~Done(i)
Closed(i) == i \in OpIds /\ Done(i)

\* every worker goroutine has returned: the closed channel is drained and no
\* worker is inside Execute
WorkersReturned == q = << >> /\ \A w \in DOMAIN workers : workers[w] = 0

\* C31: with a concurrency of at least 1 and no child process that runs
\* forever, under fair scheduling the done channel of every operation is
\* eventually closed, and runRun eventually returns with every worker
\* goroutine returned (or has returned from the collection already).
C31_EverythingTerminates ==
    (/\ maxThreads >= 1
     /\ \A i \in 1..MaxDirs : []<>~Hung(i))
    => /\ \A i \in 1..MaxDirs : Open(i) ~> Closed(i)
       /\ <>(\/ pc = "aborted"
             \/ pc = "returned" /\ WorkersReturned /\ \A i \in OpIds : Done(i))

\* runRun has returned from a run with more workers than directories in which
\* a child process that would not exit by itself was killed at its timeout
C31_Witness ==
    /\ pc = "returned"
    /\ maxThreads >= 1
    /\ Len(workers) > Len(ops)
    /\ WorkersReturned
    /\ \E i \in OpIds : ops[i].behav = "hang" /\ ops[i].outcome = "killed"

\* the timer of operation i's context fires in this step
TimeoutFires(i) ==
    /\ i \in OpIds
    /\ ops[i].ctxErr # "DeadlineExceeded"
    /\ i \in DOMAIN ops'
    /\ ops'[i].ctxErr = "DeadlineExceeded"

\* the child process of operation i is killed at its timeout in this step
TimeoutKills(i) ==
    /\ i \in OpIds
    /\ ops[i].state = "Started"
    /\ ops[i].ctxErr = "DeadlineExceeded"
    /\ i \in DOMAIN ops'
    /\ ops'[i].state = "Done"

\* C32: a timeout is the affair of one operation.  The step in which the timer
\* of an operation fires, and the step in which its process is killed for it,
\* leave the signal context alone and change no operation but those whose own
\* timer fires in the same step; an operation that a worker receives, after
\* whatever timeouts, starts with a context that is done only if the signal
\* context is, and with a deadline of its own.
C32_TimeoutIsLocal ==
    [][/\ \A i \in OpIds :
              (TimeoutFires(i) \/ TimeoutKills(i)) =>
                  /\ cancelled' = cancelled
                  /\ DOMAIN ops' = DOMAIN ops
                  /\ \A j \in OpIds \ {i} :
                         \/ ops'[j] = ops[j]
                         \/ TimeoutFires(j) /\ ops[j].deadline <= now'
       /\ \A j \in OpIds :
              (ops[j].state = "Pending" /\ j \in DOMAIN ops' /\ ops'[j].state = "Claimed") =>
                  /\ ops'[j].ctxErr = IF cancelled THEN "Canceled" ELSE ""
                  /\ maxDur # 0 => ops'[j].deadline = now + maxDur]_vars

\* a single worker: the process of the first operation was killed at its
\* timeout, and the operation the worker received next ran to Success without
\* any signal
C32_Witness ==
    /\ maxThreads = 1
    /\ ~cancelled
    /\ Len(ops) = 2
    /\ ops[1].ctxErr = "DeadlineExceeded"
    /\ ops[1].outcome = "killed"
    /\ ops[2].state = "Done"
    /\ ops[2].ctxErr = ""
    /\ ops[2].Status = Success

\* the place of the directory d in runRun's dirs
DirIndex(d) == CHOOSE k \in DOMAIN dirs : dirs[k] = d

C35_NeverSkipped ==
    /\ \A i \in OpIds : ops[i].Status # Skipped
    /\ Count(Skipped) = 0
    /\ pc = "returned" =>
           /\ phase = "primary"
           /\ Count(Success) + Count(Failure) + Count(Error) = Len(ops)

\* runRun has returned from a run with a filter pass: the one primary
\* operation is counted as an Error, none as Skipped
C35_Witness ==
    /\ pc = "returned"
    /\ gitDiff
    /\ Len(ops) = 1
    /\ Len(out) > 0
    /\ Count(Error) = 1
    /\ Count(Skipped) = 0

\* C36: with a concurrency of at least 1, under fair scheduling, once the
\* signal context is done runRun eventually returns, whatever the child
\* processes would have done by themselves.
C36_ReturnsAfterCancel ==
    maxThreads >= 1 => (cancelled ~> (pc = "returned" \/ pc = "aborted"))

\* runRun has returned from a run with a filter pass in which the signal found
\* a child process running that would not have exited by itself
C36_Witness ==
    /\ pc = "returned"
    /\ cancelled
    /\ gitDiff
    /\ maxDur = 0
    /\ \E i \in OpIds :
          /\ ops[i].atCancel = "Started"
          /\ ops[i].behav = "hang"
          /\ ops[i].outcome = "killed"

\* Execute is entered for operation i after the signal, if at all: the signal
\* found it in the channel, or arrived before it was created
AfterCancel(i) == cancelled /\ ops[i].atCancel \in {"Pending", ""}

WildcardPrefix(pat) ==
    /\ FirstGlobstar(pat) > 1
    /\ \E j \in 1..(FirstGlobstar(pat) - 1) : HasMeta(pat[j])

\* C38: for a well-formed pattern with a wildcard before its first globstar,
\* rGlob returns no error, nothing when no entry is named as the prefix is
\* spelled, and otherwise only paths below the entry of that name.
C38_PrefixIsLiteral ==
    \A k \in DOMAIN results :
        (WildcardPrefix(pattern) /\ WellFormed(pattern)) =>
            /\ ~results[k].err
            /\ ~Exists(WalkRoot(pattern)) => results[k].m = << >>
            /\ \A i \in DOMAIN results[k].m :
                   IsPrefix(Entry(WalkRoot(pattern)), Entry(results[k].m[i]))

\* C39: when the words after the patterns hold no command word, no operation
\* is created for the command, no worker enters Execute and indexes into the
\* empty command, and runRun returns nothing but a misuse error.
C39_EmptyCommandRejected ==
    execCmd = "empty" =>
        /\ ~(ops # << >> /\ EmptyCmd(phase))
        /\ \A i \in OpIds : ~(EmptyCmd(phase) /\ ops[i].execs > 0)
        /\ pc # "panicked"
        /\ pc = "returned" => ret = <<MisuseExitCode>>

====
